---------------------------- MODULE Spec2Model ----------------------------
(***************************************************************************)
(* Verification model of the betting scanner's scoring / ranking pipeline  *)
(* (src/ai_analyzer.py) and of the report splitter (src/discord_alert.py). *)
(*                                                                         *)
(* Conventions                                                             *)
(*   - Python floats that are decimal constants are kept as fixed point:   *)
(*     confidences in thousandths (4.0 -> 4000), spreads, totals and prop  *)
(*     lines in tenths (0.5 -> 5).  Probabilities and edges are exact      *)
(*     rationals [n, d].                                                   *)
(*   - An optional value (Python None / a value) is <<>> / <<v>>; an odds  *)
(*     field is 'N/A' (NA) or a number (Num(v)).                           *)
(*   - Python strings are TLA+ strings; substring tests, lower(), upper()  *)
(*     and strip() are computed character by character.                    *)
(*   - `self` is the set of attribute names that resolve on the instance   *)
(*     a method runs on.  In src/ai_analyzer.py the class body ends at     *)
(*     line 477 (the def at column 0 on line 479 closes it), and the defs  *)
(*     of lines 601-740 are nested inside the module-level function        *)
(*     clean_stat_type, after its return: they are not attributes of       *)
(*     BettingAIAnalyzer, so `self.<helper>(...)` raises AttributeError.   *)
(***************************************************************************)
EXTENDS Integers, Sequences, FiniteSets, TLC

VARIABLES self, op, arg, ret, pc, ai, disk, last, runs

runvars == <<pc, ai, disk, last, runs>>

vars == <<self, op, arg, ret, pc, ai, disk, last, runs>>

---------------------------------------------------------------------------
(* Generic helpers                                                         *)

None == <<>>

Some(v) == <<v>>

NA == <<>>

Num(v) == <<v>>

\* a field that holds Python None (JSON null)
Null == <<0, 0>>

Abs(x) == IF x < 0 THEN -x ELSE x

Min(a, b) == IF a <= b THEN a ELSE b

Max(a, b) == IF a >= b THEN a ELSE b

Range(s) == {s[i] : i \in 1..Len(s)}

RECURSIVE Gcd(_, _)
Gcd(a, b) == IF b = 0 THEN a ELSE Gcd(b, a % b)

\* exact rational n/d, d > 0, in lowest terms
Rat(n, d) ==
    LET g == Gcd(Abs(n), Abs(d))
        s == IF d < 0 THEN -1 ELSE 1
    IN  [n |-> (s * n) \div g, d |-> (s * d) \div g]

RAdd(a, b) == Rat(a.n * b.d + b.n * a.d, a.d * b.d)

RSub(a, b) == Rat(a.n * b.d - b.n * a.d, a.d * b.d)

RDiv(a, b) == Rat(a.n * b.d, a.d * b.n)

RLess(a, b) == a.n * b.d < b.n * a.d

RMax(a, b) == IF RLess(a, b) THEN b ELSE a

RZero == [n |-> 0, d |-> 1]

\* x rounded to the nearest thousandth, as an integer number of thousandths
Milli(x) == (2000 * x.n + x.d) \div (2 * x.d)

\* Python: sub in s
Contains(sub, s) ==
    \E i \in 1..(Len(s) - Len(sub) + 1) : SubSeq(s, i, i + Len(sub) - 1) = sub

UpperChars == "ABCDEFGHIJKLMNOPQRSTUVWXYZ"

LowerChars == "abcdefghijklmnopqrstuvwxyz"

\* the character that stands for c: to[i] for c = from[i]
CharMap(from, to) ==
    [c \in {SubSeq(from, i, i) : i \in 1..Len(from)} |->
        LET i == CHOOSE j \in 1..Len(from) : SubSeq(from, j, j) = c
        IN  SubSeq(to, i, i)]

ToLower == CharMap(UpperChars, LowerChars)

ToUpper == CharMap(LowerChars, UpperChars)

MapChar(c, map) == IF c \in DOMAIN map THEN map[c] ELSE c

RECURSIVE MapString(_, _)
MapString(s, map) ==
    IF Len(s) = 0 THEN ""
    ELSE MapChar(SubSeq(s, 1, 1), map) \o MapString(SubSeq(s, 2, Len(s)), map)

\* Python: s.lower(), s.upper()
Lower(s) == MapString(s, ToLower)

Upper(s) == MapString(s, ToUpper)

\* keys are tuples of integers, compared as Python compares tuples
RECURSIVE KeyLess(_, _)
KeyLess(a, b) ==
    IF a = <<>> \/ b = <<>> THEN Len(a) < Len(b)
    ELSE IF Head(a) # Head(b) THEN Head(a) < Head(b)
    ELSE KeyLess(Tail(a), Tail(b))

\* the list of the values of a function on 1..n
AsList(f) == SubSeq(f, 1, Len(f))

\* Python: list.sort(key=Key, reverse=True) -- stable: an element moves
\* behind the elements of a greater key and the earlier ones of an equal key
SortDesc(s, Key(_)) ==
    LET keys == AsList([i \in 1..Len(s) |-> Key(s[i])])
        place == AsList([i \in 1..Len(s) |->
                            1 + Cardinality({j \in 1..Len(s) :
                                                \/ KeyLess(keys[i], keys[j])
                                                \/ keys[j] = keys[i] /\ j < i})])
    IN  [k \in 1..Len(s) |-> s[CHOOSE i \in 1..Len(s) : place[i] = k]]

RECURSIVE Flatten(_)
Flatten(ss) == IF ss = <<>> THEN <<>> ELSE Head(ss) \o Flatten(Tail(ss))

\* keys of a Python dict in insertion order: the first occurrences in s
FirstOccurrences(s) ==
    LET first == SelectSeq([i \in 1..Len(s) |-> i],
                           LAMBDA i : \A j \in 1..(i - 1) : s[j] # s[i])
    IN  [k \in 1..Len(first) |-> s[first[k]]]

---------------------------------------------------------------------------
(* Attribute resolution on the analyzer instance                           *)

\* the defs in the body of class BettingAIAnalyzer
ClassMethods ==
    {"analyze_bovada_games", "analyze_single_game", "analyze_moneyline",
     "analyze_spread", "analyze_totals", "analyze_prizepicks_projections",
     "diversify_player_picks_football_first", "analyze_single_projection"}

\* the defs nested in the module-level clean_stat_type; written with a
\* `self` parameter and called as self.<name> by the class
HelperDefs ==
    {"calculate_prop_confidence", "generate_prop_reasoning",
     "generate_game_commentary", "american_to_probability",
     "calculate_value", "map_league_to_sport", "format_analysis_for_discord"}

\* Python: self.<name> resolves (otherwise AttributeError is raised)
HasAttr(obj, name) == name \in obj

---------------------------------------------------------------------------
(* BettingAIAnalyzer.__init__                                              *)

confidence_threshold == 3500

max_picks_per_sport == 25

\* value_thresholds['moneyline'] = 0.04
moneyline_threshold == [n |-> 1, d |-> 25]

---------------------------------------------------------------------------
(* Game scoring                                                            *)

\* variant with the two branches exchanged (sensitivity of C7)
american_to_probability_swapped(odds) ==
    IF odds > 0 THEN Rat(Abs(odds), Abs(odds) + 100)
    ELSE Rat(100, Abs(odds) + 100)

american_to_probability(odds) ==
    IF odds > 0 THEN Rat(100, odds + 100)
    ELSE Rat(Abs(odds), Abs(odds) + 100)

\* variant without max(0, ...) (sensitivity of C6)
calculate_value_unclamped(fair_prob, implied_prob) ==
    IF ~RLess(RZero, implied_prob) THEN RZero
    ELSE RDiv(RSub(fair_prob, implied_prob), implied_prob)

calculate_value(fair_prob, implied_prob) ==
    IF ~RLess(RZero, implied_prob) THEN RZero
    ELSE RMax(RZero, RDiv(RSub(fair_prob, implied_prob), implied_prob))

\* lines 126-128
fair_probability(prob, other) == RDiv(prob, RAdd(prob, other))

\* variant without the cap (sensitivity of C22)
moneyline_confidence_uncapped(best_value) ==
    4000 + (30000 * best_value.n) \div best_value.d

\* line 142: min(10, 4.0 + best_value * 30), in thousandths (rounded down)
moneyline_confidence(best_value) ==
    Min(10000, 4000 + (30000 * best_value.n) \div best_value.d)

\* Python floats are IEEE-754 doubles.  As exact values the two edges of
\* lines 131-132 are equal; as doubles team1_prob / total_prob and
\* team2_prob / total_prob are rounded separately, and the results differ in
\* their last bits for most pairs of unequal prices.  The two sets below hold
\* the outcome of that arithmetic for the pairs <<team1_odds, team2_odds>>
\* of MoneylinePrices: the pairs for which team1_value > team2_value holds
\* (line 138), and the pairs whose exact edge equals the threshold while
\* the double best_value exceeds 0.04 (line 137).  For every other pair of
\* prices drawn in the inputs the doubles compare as the exact values do.
MoneylinePrices == {-500, -150, -110, 100, 108, 120, 150, 680}

Team1ValueGreater ==
    {<<-150, 680>>, <<-110, 120>>, <<-110, 680>>, <<100, 120>>, <<100, 150>>, <<108, 120>>,
     <<150, -110>>, <<150, 108>>, <<150, 120>>, <<680, -500>>, <<680, 108>>, <<680, 120>>}

ExceedsByRounding == {<<-500, 680>>, <<680, -500>>}

\* variant that always prefers team1 (sensitivity of C28)
team1_value_greater_always(team1_odds, team2_odds) == TRUE

\* line 138: team1_value > team2_value
team1_value_greater(team1_odds, team2_odds) == <<team1_odds, team2_odds>> \in Team1ValueGreater

\* line 137: best_value > self.value_thresholds['moneyline']
exceeds_threshold(best_value, team1_odds, team2_odds) ==
    \/ RLess(moneyline_threshold, best_value)
    \/ <<team1_odds, team2_odds>> \in ExceedsByRounding

analyze_moneyline(obj, game) ==
    LET team1_odds == game.moneyline.team1_odds
        team2_odds == game.moneyline.team2_odds
    IN  IF team1_odds = NA \/ team2_odds = NA THEN None
        ELSE IF ~HasAttr(obj, "american_to_probability") THEN None
        \* int(None) raises in american_to_probability, which returns None
        ELSE IF team1_odds = Null \/ team2_odds = Null THEN None
        ELSE
          LET team1_prob == american_to_probability(team1_odds[1])
              team2_prob == american_to_probability(team2_odds[1])
          IN  IF team1_prob.n = 0 \/ team2_prob.n = 0 THEN None
              ELSE IF ~HasAttr(obj, "calculate_value") THEN None
              ELSE
                LET team1_fair == fair_probability(team1_prob, team2_prob)
                    team2_fair == fair_probability(team2_prob, team1_prob)
                    team1_value == calculate_value(team1_fair, team1_prob)
                    team2_value == calculate_value(team2_fair, team2_prob)
                    best_value == RMax(team1_value, team2_value)
                    first == team1_value_greater(team1_odds[1], team2_odds[1])
                IN  IF exceeds_threshold(best_value, team1_odds[1], team2_odds[1])
                    THEN Some([bet_type |-> "Moneyline",
                               side |-> IF first THEN "team1" ELSE "team2",
                               odds |-> IF first THEN team1_odds ELSE team2_odds,
                               confidence |-> moneyline_confidence(best_value)])
                    ELSE None

\* variant with the odds floor -120 and the window 10 that lines 182 and 190
\* name as the earlier values (sensitivity of C23)
analyze_spread_strict(obj, game) ==
    LET s == game.spread
    IN  IF s.team1_spread = NA \/ s.team1_odds = NA
           \/ s.team2_spread = NA \/ s.team2_odds = NA THEN None
        \* lines 170-176: float(None), int(None) raise TypeError
        ELSE IF Null \in {s.team1_spread, s.team1_odds, s.team2_spread, s.team2_odds} THEN None
        ELSE
          LET spread1 == s.team1_spread[1]
              odds1 == s.team1_odds[1]
              odds2 == s.team2_odds[1]
              pick == IF odds1 >= -120 THEN <<"team1", 6000>>
                      ELSE IF odds2 >= -120 THEN <<"team2", 6000>>
                      ELSE IF Abs(spread1) <= 100
                           THEN <<IF odds1 >= odds2 THEN "team1" ELSE "team2", 5500>>
                      ELSE <<"", 4000>>
          IN  IF pick[1] # "" /\ pick[2] >= confidence_threshold
              THEN Some([bet_type |-> "Spread",
                         side |-> pick[1],
                         odds |-> IF pick[1] = "team1" THEN s.team1_odds ELSE s.team2_odds,
                         confidence |-> pick[2]])
              ELSE None

analyze_spread(obj, game) ==
    LET s == game.spread
    IN  IF s.team1_spread = NA \/ s.team1_odds = NA
           \/ s.team2_spread = NA \/ s.team2_odds = NA THEN None
        \* lines 170-176: float(None), int(None) raise TypeError
        ELSE IF Null \in {s.team1_spread, s.team1_odds, s.team2_spread, s.team2_odds} THEN None
        ELSE
          LET spread1 == s.team1_spread[1]
              odds1 == s.team1_odds[1]
              odds2 == s.team2_odds[1]
              pick == IF odds1 >= -130 THEN <<"team1", 6000>>
                      ELSE IF odds2 >= -130 THEN <<"team2", 6000>>
                      ELSE IF Abs(spread1) <= 140
                           THEN <<IF odds1 >= odds2 THEN "team1" ELSE "team2", 5500>>
                      ELSE <<"", 4000>>
          IN  IF pick[1] # "" /\ pick[2] >= confidence_threshold
              THEN Some([bet_type |-> "Spread",
                         side |-> pick[1],
                         odds |-> IF pick[1] = "team1" THEN s.team1_odds ELSE s.team2_odds,
                         confidence |-> pick[2]])
              ELSE None

analyze_totals(obj, game) ==
    LET t == game.totals
    IN  IF t.total_points = NA \/ t.over_odds = NA \/ t.under_odds = NA THEN None
        \* lines 227-232: float(None), int(None) raise TypeError
        ELSE IF Null \in {t.total_points, t.over_odds, t.under_odds} THEN None
        ELSE
          LET over == t.over_odds[1]
              under == t.under_odds[1]
              sport == Upper(game.sport)
              boosted == IF sport = "NFL" THEN 6500 ELSE 6000
              pick == IF sport \in {"NFL", "NBA", "MLB", "CFB"}
                      THEN IF over >= -125 THEN <<"over", boosted>>
                           ELSE IF under >= -125 THEN <<"under", boosted>>
                           ELSE <<"", 4500>>
                      ELSE <<"", 4500>>
          IN  IF pick[1] # "" /\ pick[2] >= confidence_threshold
              THEN Some([bet_type |-> "Total",
                         side |-> pick[1],
                         odds |-> IF pick[1] = "over" THEN t.over_odds ELSE t.under_odds,
                         confidence |-> pick[2]])
              ELSE None

RECURSIVE MaxOf(_)
MaxOf(s) == IF Len(s) = 1 THEN s[1] ELSE Max(s[1], MaxOf(Tail(s)))

\* lines 75-88: the recommendations in the order they are appended
game_recommendations(obj, game) ==
    analyze_moneyline(obj, game) \o analyze_spread(obj, game) \o analyze_totals(obj, game)

\* variant without the returns of lines 88-89 and 102 (sensitivity of C2)
analyze_single_game_unfiltered(obj, game) ==
    LET recs == game_recommendations(obj, game)
    IN  IF ~HasAttr(obj, "generate_game_commentary") THEN None
        ELSE Some([id |-> game.id,
                   sport |-> game.sport,
                   team1 |-> game.team1,
                   team2 |-> game.team2,
                   recommendations |-> recs,
                   confidence_score |->
                       IF recs = <<>> THEN 0
                       ELSE MaxOf([i \in 1..Len(recs) |-> recs[i].confidence])])

analyze_single_game(obj, game) ==
    LET recs == game_recommendations(obj, game)
    IN  \* line 91: self.generate_game_commentary; AttributeError -> line 104
        IF ~HasAttr(obj, "generate_game_commentary") THEN None
        ELSE IF recs # <<>>
                /\ MaxOf([i \in 1..Len(recs) |-> recs[i].confidence]) >= confidence_threshold
             THEN Some([id |-> game.id,
                        sport |-> game.sport,
                        team1 |-> game.team1,
                        team2 |-> game.team2,
                        recommendations |-> recs,
                        confidence_score |->
                            MaxOf([i \in 1..Len(recs) |-> recs[i].confidence])])
             ELSE None

\* line 37: key=lambda x: x.get('confidence_score', 0)
ConfidenceKey(x) == <<x.confidence_score>>

\* variant with <= in place of < on line 45 (sensitivity of C3)
RECURSIVE CapPerSport_inclusive(_, _)
CapPerSport_inclusive(sorted, cap) ==
    IF sorted = <<>> THEN <<>>
    ELSE LET before == CapPerSport_inclusive(SubSeq(sorted, 1, Len(sorted) - 1), cap)
             x == sorted[Len(sorted)]
         IN  IF Len(SelectSeq(before, LAMBDA y : y.sport = x.sport)) <= cap
             THEN Append(before, x) ELSE before

\* lines 39-46: per sport, the first max_picks_per_sport of the sorted list
RECURSIVE CapPerSport(_, _)
CapPerSport(sorted, cap) ==
    IF sorted = <<>> THEN <<>>
    ELSE LET before == CapPerSport(SubSeq(sorted, 1, Len(sorted) - 1), cap)
             x == sorted[Len(sorted)]
         IN  IF Len(SelectSeq(before, LAMBDA y : y.sport = x.sport)) < cap
             THEN Append(before, x) ELSE before

\* lines 48-51: the sport lists in dict insertion order, concatenated
GroupBySport(picks) ==
    LET sports == FirstOccurrences([i \in 1..Len(picks) |-> picks[i].sport])
    IN  Flatten([k \in 1..Len(sports) |->
                    SelectSeq(picks, LAMBDA y : y.sport = sports[k])])

\* lines 27-34: the analyses that are not None, in input order
AnalyzeEach(obj, items, Analyze(_, _)) ==
    LET results == SelectSeq([i \in 1..Len(items) |-> Analyze(obj, items[i])],
                             LAMBDA r : r # None)
    IN  [k \in 1..Len(results) |-> results[k][1]]

analyze_bovada_games(obj, games) ==
    IF games = <<>> THEN <<>>
    ELSE LET analyzed_games == AnalyzeEach(obj, games, analyze_single_game)
             sorted == SortDesc(analyzed_games, ConfidenceKey)
         IN  GroupBySport(CapPerSport(sorted, max_picks_per_sport))

---------------------------------------------------------------------------
(* Projection scoring                                                      *)

AnyIn(words, s) == \E w \in words : Contains(w, s)

football_stat_words == {"pass", "rush", "receiving", "yards", "touchdown", "completion"}

regular_stat_words == {"points", "yards", "strikeouts", "hits", "receptions"}

\* line 629, in tenths
clean_lines == {5, 15, 25, 205, 255, 505, 1005, 2005, 2505}

football_stars ==
    {"mahomes", "allen", "burrow", "herbert", "lamar", "jackson", "josh", "patrick",
     "kelce", "adams", "hill", "jefferson", "chase", "diggs", "hopkins", "kupp",
     "mccaffrey", "henry", "cook", "jones", "elliott", "kamara", "barkley",
     "williams", "daniels", "caleb", "rome", "nabers", "harrison"}

other_stars == {"lebron", "curry", "durant", "giannis", "tatum", "luka", "judge", "ohtani"}

\* variant that grants the football stat boost in a 'cfb' league as well
\* (sensitivity of C24)
prop_confidence_sum_cfb(proj) ==
    LET stat_type == Lower(proj.stat_type)
        line == proj.line_score
        player == Lower(proj.player_name)
        league == Lower(proj.league)
    IN  4000
        + (IF Contains("nfl", league) THEN 3000
           ELSE IF Contains("ncaaf", league) \/ Contains("cfb", league) THEN 2500
           ELSE IF Contains("nba", league) THEN 500
           ELSE 0)
        + (IF (Contains("nfl", league) \/ Contains("ncaaf", league) \/ Contains("cfb", league))
              /\ AnyIn(football_stat_words, stat_type) THEN 1500 ELSE 0)
        + (IF AnyIn(regular_stat_words, stat_type) THEN 1000 ELSE 0)
        + (IF line \in clean_lines THEN 800 ELSE 0)
        + (IF AnyIn(football_stars, player) THEN 2000 ELSE 0)
        + (IF AnyIn(other_stars, player) THEN 1000 ELSE 0)

\* lines 603-645: the sum of the base and the boosts, before the clamp
prop_confidence_sum(proj) ==
    LET stat_type == Lower(proj.stat_type)
        line == proj.line_score
        player == Lower(proj.player_name)
        league == Lower(proj.league)
    IN  4000
        + (IF Contains("nfl", league) THEN 3000
           ELSE IF Contains("ncaaf", league) \/ Contains("cfb", league) THEN 2500
           ELSE IF Contains("nba", league) THEN 500
           ELSE 0)
        + (IF (Contains("nfl", league) \/ Contains("ncaaf", league))
              /\ AnyIn(football_stat_words, stat_type) THEN 1500 ELSE 0)
        + (IF AnyIn(regular_stat_words, stat_type) THEN 1000 ELSE 0)
        + (IF line \in clean_lines THEN 800 ELSE 0)
        + (IF AnyIn(football_stars, player) THEN 2000 ELSE 0)
        + (IF AnyIn(other_stars, player) THEN 1000 ELSE 0)

\* variant without min(10.0, ...) (sensitivity of C1)
calculate_prop_confidence_unclamped(proj) == prop_confidence_sum(proj)

\* lines 601-647
calculate_prop_confidence(proj) == Min(10000, prop_confidence_sum(proj))

map_league_to_sport(league) ==
    LET league_lower == Lower(league)
    IN  IF Contains("nfl", league_lower) THEN "NFL"
        ELSE IF Contains("ncaaf", league_lower) \/ Contains("college football", league_lower)
             THEN "CFB"
        ELSE IF Contains("nba", league_lower) THEN "NBA"
        ELSE IF Contains("ncaab", league_lower) \/ Contains("college basketball", league_lower)
             THEN "CBB"
        ELSE IF Contains("mlb", league_lower) \/ Contains("baseball", league_lower) THEN "MLB"
        ELSE IF Contains("nhl", league_lower) \/ Contains("hockey", league_lower) THEN "NHL"
        ELSE IF Contains("soccer", league_lower) \/ Contains("mls", league_lower) THEN "Soccer"
        ELSE "Other"

\* lines 459-470: the scored record (the display texts are left out)
scored_projection(proj) ==
    [id |-> proj.id,
     player_name |-> proj.player_name,
     league |-> proj.league,
     sport |-> map_league_to_sport(proj.league),
     stat_type |-> proj.stat_type,
     line_score |-> proj.line_score,
     confidence_score |-> calculate_prop_confidence(proj)]

\* the method of the class (lines 443-475); every self.<helper> call that
\* does not resolve raises AttributeError, caught on line 474
analyze_single_projection(obj, proj) ==
    IF ~HasAttr(obj, "calculate_prop_confidence") THEN None
    ELSE IF calculate_prop_confidence(proj) < confidence_threshold THEN None
    ELSE IF ~HasAttr(obj, "map_league_to_sport") \/ ~HasAttr(obj, "generate_prop_reasoning")
         THEN None
    ELSE Some(scored_projection(proj))

---------------------------------------------------------------------------
(* Projection ranking                                                      *)

max_per_player == 6

\* lines 310-324
sort_key(prop) ==
    LET confidence == prop.confidence_score
    IN  IF prop.sport = "NFL" THEN <<1000000 + confidence, confidence>>
        ELSE IF prop.sport = "CFB" THEN <<900000 + confidence, confidence>>
        ELSE IF prop.sport = "NBA" THEN <<100000 + confidence, confidence>>
        ELSE IF prop.sport = "CBB" THEN <<50000 + confidence, confidence>>
        ELSE <<confidence, confidence>>

\* lines 428-437
final_sort_key(prop) ==
    LET confidence == prop.confidence_score
    IN  IF prop.sport = "NFL" THEN <<2000000 + confidence, confidence>>
        ELSE IF prop.sport = "CFB" THEN <<1900000 + confidence, confidence>>
        ELSE <<confidence, confidence>>

\* line 383: f"{player}_{sport}"
player_key(prop) == prop.player_name \o "_" \o prop.sport

\* line 390
is_football_key(k) == Contains("NFL", k) \/ Contains("CFB", k)

\* lines 397-408: one pick per new stat type, in confidence order
RECURSIVE variety_pass(_, _, _, _)
variety_pass(picks, selected, stat_types_seen, cap) ==
    IF picks = <<>> THEN selected
    ELSE LET pick == Head(picks)
             stat_type == Lower(pick.stat_type)
         IN  IF stat_type \notin stat_types_seen \/ Len(selected) = 0
             THEN IF Len(selected) + 1 >= cap THEN Append(selected, pick)
                  ELSE variety_pass(Tail(picks), Append(selected, pick),
                                    stat_types_seen \cup {stat_type}, cap)
             ELSE variety_pass(Tail(picks), selected, stat_types_seen, cap)

\* lines 410-416: extras of confidence >= 6.0 regardless of stat type
RECURSIVE extras_pass(_, _, _)
extras_pass(picks, selected, cap) ==
    IF picks = <<>> THEN selected
    ELSE LET pick == Head(picks)
         IN  IF pick \notin Range(selected) /\ pick.confidence_score >= 6000
             THEN IF Len(selected) + 1 >= cap THEN Append(selected, pick)
                  ELSE extras_pass(Tail(picks), Append(selected, pick), cap)
             ELSE extras_pass(Tail(picks), selected, cap)

\* variant that stops one pick later (sensitivity of C4)
football_player_selected_loose(picks, cap) ==
    LET sorted == SortDesc(picks, ConfidenceKey)
        first == variety_pass(sorted, <<>>, {}, cap + 1)
    IN  IF Len(first) < cap + 1 THEN extras_pass(sorted, first, cap + 1) ELSE first

\* variant without the variety pass: the top picks by confidence
\* (sensitivity of C8)
football_player_selected_by_confidence(picks, cap) ==
    LET sorted == SortDesc(picks, ConfidenceKey)
    IN  SubSeq(sorted, 1, Min(cap, Len(sorted)))

\* lines 394-418, for one football player key
football_player_selected(picks, cap) ==
    LET sorted == SortDesc(picks, ConfidenceKey)
        first == variety_pass(sorted, <<>>, {}, cap)
    IN  IF Len(first) < cap THEN extras_pass(sorted, first, cap) ELSE first

\* lines 421-425, for one other player key
other_player_selected(picks) ==
    LET sorted == SortDesc(picks, ConfidenceKey)
    IN  SubSeq(sorted, 1, Min(2, Len(sorted)))

diversify_player_picks_football_first(analyzed_props, cap) ==
    LET keys == FirstOccurrences([i \in 1..Len(analyzed_props) |->
                                     player_key(analyzed_props[i])])
        picks_of(k) == SelectSeq(analyzed_props, LAMBDA p : player_key(p) = k)
        football_players == SelectSeq(keys, is_football_key)
        other_players == SelectSeq(keys, LAMBDA k : ~is_football_key(k))
        diversified ==
            Flatten([i \in 1..Len(football_players) |->
                        football_player_selected(picks_of(football_players[i]), cap)])
            \o Flatten([i \in 1..Len(other_players) |->
                           other_player_selected(picks_of(other_players[i]))])
    IN  SortDesc(diversified, final_sort_key)

\* variant that raises the cap of the other sports at 40 football picks
\* (sensitivity of C25)
allocate_prop_early(state, prop) ==
    LET have == Len(SelectSeq(state.kept, LAMBDA p : p.sport = prop.sport))
    IN  IF prop.sport \in {"NFL", "CFB"}
        THEN IF have < 40
             THEN [kept |-> Append(state.kept, prop),
                   football_picks |-> state.football_picks + 1]
             ELSE state
        ELSE LET max_other == IF state.football_picks < 40 THEN 5 ELSE 15
             IN  IF have < max_other
                 THEN [kept |-> Append(state.kept, prop),
                       football_picks |-> state.football_picks]
                 ELSE state

\* lines 337-356: the body of the loop for one prop; state is the props
\* kept so far, in processing order, and football_picks
allocate_prop(state, prop) ==
    LET have == Len(SelectSeq(state.kept, LAMBDA p : p.sport = prop.sport))
    IN  IF prop.sport \in {"NFL", "CFB"}
        THEN IF have < 40
             THEN [kept |-> Append(state.kept, prop),
                   football_picks |-> state.football_picks + 1]
             ELSE state
        ELSE LET max_other == IF state.football_picks < 50 THEN 5 ELSE 15
             IN  IF have < max_other
                 THEN [kept |-> Append(state.kept, prop),
                       football_picks |-> state.football_picks]
                 ELSE state

\* line 336: the iterations for props[from] to props[to], those of the
\* first half before those of the second
RECURSIVE allocate_loop(_, _, _, _)
allocate_loop(state, props, from, to) ==
    IF from > to THEN state
    ELSE IF from = to THEN allocate_prop(state, props[from])
    ELSE LET mid == (from + to) \div 2
         IN  CHOOSE after \in {allocate_loop(half, props, mid + 1, to) :
                                  half \in {allocate_loop(state, props, from, mid)}} : TRUE

\* lines 332-356: the props kept, in processing order, and football_picks
allocate_by_sport(props) ==
    allocate_loop([kept |-> <<>>, football_picks |-> 0], props, 1, Len(props))

\* lines 358-369: football first, then the other sports in dict order
flatten_football_first(diversified_props, kept) ==
    LET sports == FirstOccurrences([i \in 1..Len(diversified_props) |->
                                       diversified_props[i].sport])
        others == SelectSeq(sports, LAMBDA sp : sp \notin {"NFL", "CFB"})
        of(sp) == SelectSeq(kept, LAMBDA p : p.sport = sp)
    IN  of("NFL") \o of("CFB") \o Flatten([i \in 1..Len(others) |-> of(others[i])])

analyze_prizepicks_projections(obj, projections) ==
    IF projections = <<>> THEN <<>>
    ELSE LET analyzed_props == AnalyzeEach(obj, projections, analyze_single_projection)
             sorted == SortDesc(analyzed_props, sort_key)
             diversified_props == diversify_player_picks_football_first(sorted, max_per_player)
         IN  flatten_football_first(diversified_props,
                                    allocate_by_sport(diversified_props).kept)

---------------------------------------------------------------------------
(* DiscordAlert.split_long_message                                         *)
(*                                                                         *)
(* A line of text is [idx, lead, body, trail, ellipsis]: its position in   *)
(* the message, the number of leading whitespace characters, the number of *)
(* characters from its first to its last non-whitespace character, the     *)
(* number of trailing whitespace characters (an all-whitespace line has    *)
(* body = 0 and trail = 0), and whether "..." was appended.  A chunk is    *)
(* the sequence of the lines it holds, joined by '\n'.                     *)

max_message_length == 2000

LineLen(l) == l.lead + l.body + l.trail + (IF l.ellipsis THEN 3 ELSE 0)

RECURSIVE SumLen(_)
SumLen(ls) == IF ls = <<>> THEN 0 ELSE LineLen(Head(ls)) + SumLen(Tail(ls))

\* len() of the lines joined by '\n'
ChunkLen(c) == IF c = <<>> THEN 0 ELSE SumLen(c) + Len(c) - 1

\* len(current_message): every line is followed by '\n'
CurrentLen(c) == SumLen(c) + Len(c)

IsBlank(l) == l.body = 0 /\ ~l.ellipsis

RECURSIVE DropLeadingBlank(_)
DropLeadingBlank(c) ==
    IF c = <<>> THEN <<>>
    ELSE IF IsBlank(Head(c)) THEN DropLeadingBlank(Tail(c)) ELSE c

RECURSIVE DropTrailingBlank(_)
DropTrailingBlank(c) ==
    IF c = <<>> THEN <<>>
    ELSE IF IsBlank(c[Len(c)]) THEN DropTrailingBlank(SubSeq(c, 1, Len(c) - 1)) ELSE c

\* Python: current_message.strip()
Strip(c) ==
    LET core == DropTrailingBlank(DropLeadingBlank(c))
    IN  [i \in 1..Len(core) |->
            [core[i] EXCEPT !.lead = IF i = 1 THEN 0 ELSE @,
                            !.trail = IF i = Len(core) THEN 0 ELSE @]]

\* Python: line[:n] + "..."
Truncate(l, n) ==
    LET lead == Min(l.lead, n)
        body == Min(l.body, n - lead)
        trail == Min(l.trail, n - lead - body)
    IN  [idx |-> l.idx, lead |-> lead, body |-> body, trail |-> trail, ellipsis |-> TRUE]

\* lines 222-232: the loop over the lines; st = [messages, current_message]
RECURSIVE split_loop(_, _, _)
split_loop(lines, st, limit) ==
    IF lines = <<>> THEN st
    ELSE LET line == Head(lines)
         IN  IF CurrentLen(st.current_message) + LineLen(line) + 1 > limit
             THEN IF st.current_message # <<>>
                  THEN split_loop(Tail(lines),
                                  [messages |-> Append(st.messages, Strip(st.current_message)),
                                   current_message |-> <<line>>], limit)
                  ELSE split_loop(Tail(lines),
                                  [messages |-> Append(st.messages, <<Truncate(line, limit - 3)>>),
                                   current_message |-> <<>>], limit)
             ELSE split_loop(Tail(lines),
                             [messages |-> st.messages,
                              current_message |-> Append(st.current_message, line)], limit)

\* message is the list message.split('\n')
split_long_message(message) ==
    IF ChunkLen(message) <= max_message_length THEN <<message>>
    ELSE LET st == split_loop(message, [messages |-> <<>>, current_message |-> <<>>],
                              max_message_length)
         IN  IF st.current_message # <<>>
             THEN Append(st.messages, Strip(st.current_message))
             ELSE st.messages

---------------------------------------------------------------------------
(* Odds normalizer (src/bovada_scanner.py).  An event is the JSON object   *)
(* of one game: home_team and away_team are <<>> when the key is absent,   *)
(* bookmakers is a list of [markets], a market is [key, outcomes], an      *)
(* outcome is [name, price, point]; price and point are NA when the key is *)
(* absent (the default of .get), Null when the payload has null, Num(v)    *)
(* otherwise.  is_dict is FALSE for an element that is not a JSON object.  *)

\* Python truth value of a field: None and 0 are false, 'N/A' is true
Falsy(x) == x = Null \/ x = Num(0)

\* lines 128-132
RECURSIVE h2h_outcomes(_, _, _, _)
h2h_outcomes(outcomes, moneyline_odds, away_team, home_team) ==
    IF outcomes = <<>> THEN moneyline_odds
    ELSE LET outcome == Head(outcomes)
         IN  h2h_outcomes(Tail(outcomes),
                 IF outcome.name = away_team
                 THEN [moneyline_odds EXCEPT !.team1_odds = outcome.price]
                 ELSE IF outcome.name = home_team
                 THEN [moneyline_odds EXCEPT !.team2_odds = outcome.price]
                 ELSE moneyline_odds,
                 away_team, home_team)

\* lines 136-142
RECURSIVE spreads_outcomes(_, _, _, _)
spreads_outcomes(outcomes, spread_odds, away_team, home_team) ==
    IF outcomes = <<>> THEN spread_odds
    ELSE LET outcome == Head(outcomes)
         IN  spreads_outcomes(Tail(outcomes),
                 IF outcome.name = away_team
                 THEN [spread_odds EXCEPT !.team1_spread = outcome.point,
                                          !.team1_odds = outcome.price]
                 ELSE IF outcome.name = home_team
                 THEN [spread_odds EXCEPT !.team2_spread = outcome.point,
                                          !.team2_odds = outcome.price]
                 ELSE spread_odds,
                 away_team, home_team)

\* lines 147-154; total_odds.total_points carries the local total_points
RECURSIVE totals_outcomes(_, _)
totals_outcomes(outcomes, total_odds) ==
    IF outcomes = <<>> THEN total_odds
    ELSE LET outcome == Head(outcomes)
         IN  totals_outcomes(Tail(outcomes),
                 IF outcome.name = "Over"
                 THEN [total_odds EXCEPT !.over_odds = outcome.price,
                                         !.total_points = outcome.point]
                 ELSE IF outcome.name = "Under"
                 THEN [total_odds EXCEPT !.under_odds = outcome.price,
                                         !.total_points =
                                             IF Falsy(@) THEN outcome.point ELSE @]
                 ELSE total_odds)

\* lines 122-156: the markets of the first bookmaker, in order
RECURSIVE markets_loop(_, _, _, _)
markets_loop(markets, odds, away_team, home_team) ==
    IF markets = <<>> THEN odds
    ELSE LET market == Head(markets)
             many == Len(market.outcomes) >= 2
         IN  markets_loop(Tail(markets),
                 IF market.key = "h2h" /\ many
                 THEN [odds EXCEPT !.moneyline =
                          h2h_outcomes(market.outcomes, @, away_team, home_team)]
                 ELSE IF market.key = "spreads" /\ many
                 THEN [odds EXCEPT !.spread =
                          spreads_outcomes(market.outcomes, @, away_team, home_team)]
                 ELSE IF market.key = "totals" /\ many
                 THEN [odds EXCEPT !.totals =
                          totals_outcomes(market.outcomes,
                                          [@ EXCEPT !.total_points = Null])]
                 ELSE odds,
                 away_team, home_team)

\* lines 101-175; event.get(...) of an element that is not a JSON object
\* raises AttributeError, caught on line 173
extract_odds_api_game_info(event, sport_name) ==
    IF ~event.is_dict THEN None
    ELSE
      LET home_team == IF event.home_team = <<>> THEN "Home Team" ELSE event.home_team[1]
          away_team == IF event.away_team = <<>> THEN "Away Team" ELSE event.away_team[1]
          initial == [moneyline |-> [team1_odds |-> NA, team2_odds |-> NA],
                      spread |-> [team1_spread |-> NA, team1_odds |-> NA,
                                  team2_spread |-> NA, team2_odds |-> NA],
                      totals |-> [total_points |-> NA, over_odds |-> NA, under_odds |-> NA]]
          odds == IF event.bookmakers # <<>>
                  THEN markets_loop(event.bookmakers[1].markets, initial, away_team, home_team)
                  ELSE initial
      IN  Some([id |-> event.id,
                sport |-> sport_name,
                team1 |-> away_team,
                team2 |-> home_team,
                moneyline |-> odds.moneyline,
                spread |-> odds.spread,
                totals |-> odds.totals])

\* lines 82-99: the records that are not None, in payload order
parse_odds_api_games(data, sport_name) ==
    Flatten([i \in 1..Len(data) |-> extract_odds_api_game_info(data[i], sport_name)])

---------------------------------------------------------------------------
(* Projection scanner (src/prizepicks_scanner.py).  The answer of an       *)
(* endpoint is [kind, data, included]: kind tells how the request ends     *)
(* ("raises", a status other than 200, a body that is no JSON, a JSON      *)
(* value that is no object, an object without 'data', or "dict": status    *)
(* 200 with an object that has 'data'); data and included are JSON values  *)
(* <<"list", items>>, <<"null">>, <<"number">>, <<"string", n>>,           *)
(* <<"object", n>> (n the number of characters / keys); included is a      *)
(* list, <<"null">> or <<"missing">> (no such key).                        *)

\* line 10-14: the endpoints, in the order of self.base_urls
base_urls == <<"partner-api/projections", "api/projections", "partner-api/projections?league_id">>

\* Python len(): defined for lists, strings and dicts
HasLen(v) == v[1] \in {"list", "string", "object"}

JsonLen(v) == IF v[1] = "list" THEN Len(v[2]) ELSE v[2]

\* lines 100-113 for one answer: TRUE when `return data` is reached.
\* data.get('included', []) is [] when the key is missing; len(None) and
\* len(5) raise TypeError, caught on line 124, before the count is tested
ReturnsData(response) ==
    /\ response.kind = "dict"
    /\ HasLen(response.data)
    /\ response.included[1] \in {"missing", "list"}
    /\ JsonLen(response.data) > 0

\* lines 85-129: the loop over the endpoints; requests are the endpoints
\* requested so far, in order
RECURSIVE fetch_loop(_, _, _)
fetch_loop(i, responses, requests) ==
    IF i > Len(base_urls) THEN [requests |-> requests, result |-> None]
    ELSE IF ReturnsData(responses[i])
         THEN [requests |-> Append(requests, base_urls[i]), result |-> Some(responses[i])]
         ELSE fetch_loop(i + 1, responses, Append(requests, base_urls[i]))

fetch_projections(responses) == fetch_loop(1, responses, <<>>)

\* lines 33-39, the values of self.target_leagues in order
target_leagues ==
    <<"NFL", "NFLP", "NCAAF", "College Football", "CFB", "NBA",
      "NCAAB", "College Basketball", "CBB", "MLB", "Major League Baseball">>

\* line 238: target.lower() for every target
target_lower == [i \in 1..Len(target_leagues) |-> Lower(target_leagues[i])]

\* lines 234-240
is_target_league(league_name) ==
    LET league_lower == Lower(league_name)
    IN  \E i \in 1..Len(target_leagues) : Contains(target_lower[i], league_lower)

\* lines 148-157: the attributes of the last included item of a type and id;
\* an included item is [type, id, name], name <<>> when the attribute is absent
RECURSIVE lookup(_, _, _)
lookup(included, type, id) ==
    IF included = <<>> THEN None
    ELSE LET item == included[Len(included)]
         IN  IF item.type = type /\ item.id = id THEN Some(item)
             ELSE lookup(SubSeq(included, 1, Len(included) - 1), type, id)

\* players_map.get(id, {}).get('display_name', 'Unknown') and the like
name_of(included, type, id) ==
    LET found == lookup(included, type, id)
    IN  IF found = None \/ found[1].name = <<>> THEN "Unknown" ELSE found[1].name[1]

\* lines 181-232; a raw projection is [is_dict, id, stat_type, line_score,
\* player_id, league_id, null_data], an id being "" when the relationship is
\* absent, null_data the relationships whose 'data' is null;
\* proj.get of an element that is no JSON object raises, and so does
\* .get('id', '') on the None of a null 'data' (lines 196, 203, 209), both
\* caught on line 230
extract_projection_info(proj, included) ==
    IF ~proj.is_dict \/ proj.null_data # {} THEN None
    ELSE Some([id |-> proj.id,
               player_name |-> name_of(included, "new_player", proj.player_id),
               league |-> name_of(included, "league", proj.league_id),
               stat_type |-> proj.stat_type,
               line_score |-> proj.line_score])

\* lines 131-179; data is the payload fetch_projections returned.  A 'data'
\* that is a string or an object is iterated element by element, and every
\* element fails in extract_projection_info
parse_projections(data) ==
    IF data.data[1] # "list" THEN <<>>
    ELSE LET included == IF data.included[1] = "list" THEN data.included[2] ELSE <<>>
             raw_projections == data.data[2]
             extracted == Flatten([i \in 1..Len(raw_projections) |->
                              extract_projection_info(raw_projections[i], included)])
         IN  SelectSeq(extracted, LAMBDA p : is_target_league(p.league))

\* lines 242-271
categorize_by_sport(projections) ==
    LET league(p) == Lower(p.league)
        has(w, p) == Contains(w, league(p))
        sport(p) == IF has("nfl", p) \/ has("nflp", p) THEN "NFL"
                    ELSE IF has("ncaaf", p) \/ has("college football", p) \/ has("cfb", p)
                         THEN "CFB"
                    ELSE IF has("nba", p) THEN "NBA"
                    ELSE IF has("ncaab", p) \/ has("college basketball", p) \/ has("cbb", p)
                         THEN "CBB"
                    ELSE IF has("mlb", p) \/ has("major league baseball", p) THEN "MLB"
                    ELSE "Other"
    IN  [s \in {"NFL", "CFB", "NBA", "CBB", "MLB", "Other"} |->
            SelectSeq(projections, LAMBDA p : sport(p) = s)]

---------------------------------------------------------------------------
(* The scan run (src/update_all.py, with the file writes of the scanners). *)
(* files maps the path of a 'current' file or of its deployed copy to None *)
(* (no such file) or Some(collection).  The timestamped backup copies and  *)
(* the scanners' own files (bovada_games.json, prizepicks_projections.json,*)
(* prizepicks_by_sport.json) are left out: nothing reads them; a failure   *)
(* to open them is kept.  The path ".git" stands for the .git directory of *)
(* the working directory.  The environment of a run is                     *)
(* [nfl, cfb, responses, writable]: the answers of the two odds endpoints  *)
(* ([kind, data], kind "ok" being status 200 with a JSON list), the        *)
(* answers of the projection endpoints, and whether writing a file         *)
(* succeeds.                                                               *)
(* mode is the configuration of BettingAI as main() sets it.               *)

\* update_all.py lines 36-41, in the order of data_files
data_files ==
    <<"prizepicks_analysis.json", "bovada_analysis.json",
      "prizepicks_current.json", "bovada_current.json">>

InData(file) == "data/" \o file

Paths == {InData(f) : f \in Range(data_files)} \cup Range(data_files) \cup {".git"}

\* with open(path, 'w') as f: json.dump(collection, f)
write(files, path, collection) == [files EXCEPT ![path] = Some(collection)]

\* bovada_scanner.py lines 24-52 and 54-80: a status other than 200 and
\* every exception give []
fetch_games(answer, sport_name) ==
    IF answer.kind = "ok" THEN parse_odds_api_games(answer.data, sport_name) ELSE <<>>

\* bovada_scanner.py lines 177-203; open() on line 196 is outside any try
scan_all_sports(files, env) ==
    LET all_games == fetch_games(env.nfl, "NFL") \o fetch_games(env.cfb, "CFB")
    IN  IF all_games = <<>> THEN [raised |-> FALSE, games |-> <<>>, files |-> files]
        ELSE IF ~env.writable THEN [raised |-> TRUE, games |-> <<>>, files |-> files]
        ELSE [raised |-> FALSE, games |-> all_games, files |-> files]

\* update_all.py lines 370-386: a failing write is caught on line 385
save_bovada_data(files, env, games) ==
    IF env.writable THEN write(files, InData("bovada_current.json"), games) ELSE files

\* update_all.py lines 388-404
save_prizepicks_data(files, env, projections) ==
    IF env.writable THEN write(files, InData("prizepicks_current.json"), projections) ELSE files

\* update_all.py lines 229-243
scan_bovada(mode, files, env) ==
    LET scan == scan_all_sports(files, env)
    IN  IF scan.raised THEN [games |-> <<>>, files |-> scan.files]
        ELSE [games |-> scan.games,
              files |-> IF mode.save_data
                        THEN save_bovada_data(scan.files, env, scan.games)
                        ELSE scan.files]

\* prizepicks_scanner.py lines 273-314; open() on lines 303 and 307 is
\* outside any try
scan_all_projections(files, env) ==
    LET data == fetch_projections(env.responses).result
        projections == IF data = None THEN <<>> ELSE parse_projections(data[1])
    IN  IF projections = <<>> THEN [raised |-> FALSE, projections |-> <<>>, files |-> files]
        ELSE IF ~env.writable THEN [raised |-> TRUE, projections |-> <<>>, files |-> files]
        ELSE [raised |-> FALSE, projections |-> projections, files |-> files]

\* variant in which the projections are not scanned once both odds
\* requests have failed (sensitivity of C13)
scan_prizepicks_after_odds(mode, files, env) ==
    LET scan == scan_all_projections(files, env)
    IN  IF scan.raised \/ (env.nfl.kind # "ok" /\ env.cfb.kind # "ok")
        THEN [projections |-> <<>>, files |-> scan.files]
        ELSE [projections |-> scan.projections,
              files |-> IF mode.save_data
                        THEN save_prizepicks_data(scan.files, env, scan.projections)
                        ELSE scan.files]

\* update_all.py lines 245-259
scan_prizepicks(mode, files, env) ==
    LET scan == scan_all_projections(files, env)
    IN  IF scan.raised THEN [projections |-> <<>>, files |-> scan.files]
        ELSE [projections |-> scan.projections,
              files |-> IF mode.save_data
                        THEN save_prizepicks_data(scan.files, env, scan.projections)
                        ELSE scan.files]

\* update_all.py lines 342-368: a file is written only for an analysis that
\* is not empty; a failing write is caught on line 367
save_analysis_data(files, env, bovada_analysis, prizepicks_analysis) ==
    IF ~env.writable THEN files
    ELSE LET first == IF bovada_analysis # <<>>
                      THEN write(files, InData("bovada_analysis.json"), bovada_analysis)
                      ELSE files
         IN  IF prizepicks_analysis # <<>>
             THEN write(first, InData("prizepicks_analysis.json"), prizepicks_analysis)
             ELSE first

\* update_all.py lines 44-52: shutil.copy2 of the data files that exist
RECURSIVE copy_loop(_, _)
copy_loop(files, i) ==
    IF i > Len(data_files) THEN files
    ELSE LET file == data_files[i]
         IN  copy_loop(IF files[InData(file)] # None
                       THEN [files EXCEPT ![file] = files[InData(file)]]
                       ELSE files,
                       i + 1)

\* update_all.py lines 22-114: what it leaves in the working directory;
\* a copy that fails raises, caught on line 112
deploy_to_github(files, env) ==
    IF files[".git"] = None THEN files
    ELSE IF ~env.writable THEN files
    ELSE copy_loop(files, 1)

Ids(s) == [i \in 1..Len(s) |-> s[i].id]

FirstN(s, n) == SubSeq(s, 1, Min(n, Len(s)))

\* update_all.py lines 284-293
RECURSIVE unique_picks_loop(_, _, _)
unique_picks_loop(picks, players_shown, unique_picks) ==
    IF picks = <<>> THEN unique_picks
    ELSE LET pick == Head(picks)
         IN  IF pick.player_name \notin players_shown \/ Len(unique_picks) < 5
             THEN IF Len(unique_picks) + 1 >= 8
                  THEN Append(unique_picks, pick)
                  ELSE unique_picks_loop(Tail(picks), players_shown \cup {pick.player_name},
                                         Append(unique_picks, pick))
             ELSE unique_picks_loop(Tail(picks), players_shown, unique_picks)

\* A message posted to the webhook is [username, embed, games, picks]: the
\* name it is posted under, the title of its embed ("" without one) and the
\* ids of the games and of the projections it lists.
Post(username, embed, games, picks) ==
    [username |-> username, embed |-> embed, games |-> games, picks |-> picks]

\* update_all.py lines 281-303: the props the message lists and the count of
\* its "... +N more players on dashboard" line, None without that line
prizepicks_summary(prizepicks_analysis) ==
    IF prizepicks_analysis = <<>> THEN [shown |-> <<>>, more |-> None]
    ELSE LET unique_picks == unique_picks_loop(prizepicks_analysis, {}, <<>>)
             remaining == Len(prizepicks_analysis) - Len(unique_picks)
         IN  [shown |-> FirstN(unique_picks, 5),
              more |-> IF remaining > 0 THEN Some(remaining) ELSE None]

\* update_all.py lines 261-313: one message, whatever the analyses hold
send_enhanced_ai_alerts(bovada_analysis, prizepicks_analysis) ==
    <<Post("AI Betting Dashboard", "",
           Ids(FirstN(bovada_analysis, 3)),
           Ids(prizepicks_summary(prizepicks_analysis).shown))>>

\* bovada_scanner.py lines 213-224: the first three games of every sport,
\* the sports in the order of their first game
games_shown(games) ==
    LET sports == FirstOccurrences([i \in 1..Len(games) |-> games[i].sport])
    IN  Flatten([k \in 1..Len(sports) |->
                    FirstN(SelectSeq(games, LAMBDA g : g.sport = sports[k]), 3)])

\* prizepicks_scanner.py lines 321-333: the first eight projections of
\* every sport of categorize_by_sport
projections_shown(projections) ==
    LET categorized == categorize_by_sport(projections)
        sports == <<"NFL", "CFB", "NBA", "CBB", "MLB", "Other">>
    IN  Flatten([k \in 1..Len(sports) |-> FirstN(categorized[sports[k]], 8)])

\* update_all.py lines 315-340, discord_alert.py lines 44-72, 254-283; the
\* message of a collection of the sizes drawn here fits one chunk
send_alerts(mode, bovada_games, prizepicks_projections) ==
    LET send_bovada == Len(bovada_games) >= mode.min_games_threshold
        send_prizepicks == Len(prizepicks_projections) >= mode.min_projections_threshold
    IN  IF ~send_bovada /\ ~send_prizepicks THEN <<>>
        ELSE (IF send_bovada
              THEN <<Post("Bovada Scanner", "", Ids(games_shown(bovada_games)), <<>>)>>
              ELSE <<>>)
             \o (IF send_prizepicks
                 THEN <<Post("PrizePicks Scanner", "", <<>>,
                             Ids(projections_shown(prizepicks_projections)))>>
                 ELSE <<>>)
             \o <<Post("Betting AI Bot", "Scan Summary", <<>>, <<>>)>>

\* variant that posts the messages before the analysis is saved and the
\* files are deployed (sensitivity of C14)
stages_of_alerts_first(mode, posts) ==
    <<"scan_bovada", "sleep", "scan_prizepicks">>
    \o (IF mode.use_ai_analysis THEN <<"analysis">> ELSE <<>>)
    \o [i \in 1..Len(posts) |-> "post"]
    \o (IF mode.use_ai_analysis /\ mode.save_data THEN <<"save_analysis_data">> ELSE <<>>)
    \o (IF mode.deploy_to_github THEN <<"deploy_to_github">> ELSE <<>>)
    \o <<"print_summary">>

\* the stages of run_full_scan in the order in which lines 152-204 reach
\* them; every message posted is a stage of its own
stages_of(mode, posts) ==
    <<"scan_bovada", "sleep", "scan_prizepicks">>
    \o (IF mode.use_ai_analysis THEN <<"analysis">> ELSE <<>>)
    \o (IF mode.use_ai_analysis /\ mode.save_data THEN <<"save_analysis_data">> ELSE <<>>)
    \o (IF mode.deploy_to_github THEN <<"deploy_to_github">> ELSE <<>>)
    \o [i \in 1..Len(posts) |-> "post"]
    \o <<"print_summary">>

\* variant in which a scan that found nothing counts as failed (sensitivity
\* of C12)
scan_result_needs_data(bovada_games, prizepicks_projections, bovada_analysis, prizepicks_analysis) ==
    [bovada_games |-> bovada_games,
     prizepicks_projections |-> prizepicks_projections,
     bovada_analysis |-> bovada_analysis,
     prizepicks_analysis |-> prizepicks_analysis,
     success |-> bovada_games # <<>> \/ prizepicks_projections # <<>>]

\* update_all.py lines 206-213
scan_result(bovada_games, prizepicks_projections, bovada_analysis, prizepicks_analysis) ==
    [bovada_games |-> bovada_games,
     prizepicks_projections |-> prizepicks_projections,
     bovada_analysis |-> bovada_analysis,
     prizepicks_analysis |-> prizepicks_analysis,
     success |-> TRUE]

\* update_all.py lines 165-178: a collection that is empty is not analysed
analysis_of(obj, mode, bovada_games, prizepicks_projections) ==
    [bovada |-> IF mode.use_ai_analysis /\ bovada_games # <<>>
                THEN analyze_bovada_games(obj, bovada_games) ELSE <<>>,
     prizepicks |-> IF mode.use_ai_analysis /\ prizepicks_projections # <<>>
                    THEN analyze_prizepicks_projections(obj, prizepicks_projections)
                    ELSE <<>>]

\* update_all.py lines 141-213, from the results of its two scans (lines
\* 152, 159) and of the analysis on.  No failure of the environment drawn
\* here reaches the except clause of line 215: every stage catches its own.
run_full_scan(mode, env, bovada, prizepicks, analysis) ==
    LET saved == IF mode.use_ai_analysis /\ mode.save_data
                 THEN save_analysis_data(prizepicks.files, env,
                                         analysis.bovada, analysis.prizepicks)
                 ELSE prizepicks.files
        deployed == IF mode.deploy_to_github THEN deploy_to_github(saved, env) ELSE saved
        posts == IF ~mode.send_discord_alerts THEN <<>>
                 ELSE IF mode.use_ai_analysis
                 THEN send_enhanced_ai_alerts(analysis.bovada, analysis.prizepicks)
                 ELSE send_alerts(mode, bovada.games, prizepicks.projections)
    IN  [files |-> deployed,
         posts |-> posts,
         stages |-> stages_of(mode, posts),
         result |-> scan_result(bovada.games, prizepicks.projections,
                                analysis.bovada, analysis.prizepicks)]

---------------------------------------------------------------------------
(* Inputs                                                                  *)

\* longest list of games, of projections and of message lines that is drawn
\* element by element
MaxGames == 3

MaxProps == 3

MaxLines == 3

\* how far a list of like records goes beyond a cap
MaxOver == 1

SeqsUpTo(S, n) == UNION {[1..k -> S] : k \in 0..n}

Repeat(x, n) == [i \in 1..n |-> x]

\* the records of one payload carry distinct ids: the position in the list
WithIds(s) == [i \in 1..Len(s) |-> [s[i] EXCEPT !.id = i]]

NoMoneyline == [team1_odds |-> NA, team2_odds |-> NA]

NoSpread == [team1_spread |-> NA, team1_odds |-> NA, team2_spread |-> NA, team2_odds |-> NA]

NoTotals == [total_points |-> NA, over_odds |-> NA, under_odds |-> NA]

Moneyline(o1, o2) == [team1_odds |-> Num(o1), team2_odds |-> Num(o2)]

Spread(s1, o1, s2, o2) ==
    [team1_spread |-> Num(s1), team1_odds |-> Num(o1),
     team2_spread |-> Num(s2), team2_odds |-> Num(o2)]

Totals(t, o, u) == [total_points |-> Num(t), over_odds |-> Num(o), under_odds |-> Num(u)]

Game(sport, ml, sp, tot) ==
    [id |-> 0, sport |-> sport, team1 |-> "Away", team2 |-> "Home",
     moneyline |-> ml, spread |-> sp, totals |-> tot]

GamePool ==
    {Game("NFL", Moneyline(-150, 130), Spread(-35, -110, 35, -110), Totals(445, -110, -110)),
     Game("NFL", NoMoneyline, Spread(-30, -110, 30, -110), NoTotals),
     Game("NFL", Moneyline(120, 120), NoSpread, NoTotals),
     Game("NFL", Moneyline(0, 150), Spread(-205, -140, 205, -135), Totals(445, -140, -130)),
     Game("NBA", NoMoneyline, Spread(-70, -140, 70, -135), NoTotals),
     Game("NBA", Moneyline(200, 200), NoSpread, Totals(2105, -130, -110)),
     Game("NBA", NoMoneyline, NoSpread, Totals(2155, -110, -110)),
     Game("nhl", NoMoneyline, NoSpread, Totals(55, -110, -110)),
     Game("Unknown", NoMoneyline, NoSpread, NoTotals)}

\* games with a moneyline only, one for every pair of MoneylinePrices
MoneylineGames ==
    {Game("NFL", Moneyline(o1, o2), NoSpread, NoTotals) :
        o1 \in MoneylinePrices, o2 \in MoneylinePrices}

\* games with a spread only, one for every branch of analyze_spread and the
\* boundaries -130 and 14.0
SpreadGames ==
    {Game("NFL", NoMoneyline, Spread(-35, -130, 35, -140), NoTotals),
     Game("NFL", NoMoneyline, Spread(-35, -140, 35, -130), NoTotals),
     Game("NFL", NoMoneyline, Spread(-140, -140, 140, -140), NoTotals),
     Game("NFL", NoMoneyline, Spread(-70, -135, 70, -140), NoTotals),
     Game("NBA", NoMoneyline, Spread(70, -140, -70, -135), NoTotals),
     Game("NBA", NoMoneyline, Spread(-145, -140, 145, -135), NoTotals)}

\* a list that overflows the per-sport cap, followed by at most one more game
GameLists ==
    {WithIds(s) : s \in SeqsUpTo(GamePool, MaxGames)}
    \cup {WithIds(s) : s \in SeqsUpTo(SpreadGames, 2)}
    \cup {WithIds(Repeat(g, n) \o s) :
            g \in {h \in GamePool : h.sport = "NFL" /\ h.moneyline = NoMoneyline},
            n \in (max_picks_per_sport - 1)..(max_picks_per_sport + MaxOver),
            s \in SeqsUpTo(GamePool, 1)}

OddsValues == {-1000, -150, -110, -101, -100, -50, -1, 0, 1, 50, 100, 101, 110, 130, 150, 200, 1000}

Proj(player, league, stat, line) ==
    [id |-> 0, player_name |-> player, league |-> league, stat_type |-> stat,
     line_score |-> line]

\* one football player with more stat types than max_per_player
StarProps ==
    <<Proj("Josh Allen", "NFL", "Passing Yards", 2505),
      Proj("Josh Allen", "NFL", "Rushing Yards", 355),
      Proj("Josh Allen", "NFL", "Pass Attempts", 345),
      Proj("Josh Allen", "NFL", "Completions", 225),
      Proj("Josh Allen", "NFL", "Interceptions", 5),
      Proj("Josh Allen", "NFL", "Fantasy Score", 215),
      Proj("Josh Allen", "NFL", "Sacks Taken", 15),
      Proj("Josh Allen", "NFL", "passing yards", 2405)>>

ProjPool ==
    {StarProps[1], StarProps[2], StarProps[8],
     Proj("Josh Allen", "NBA", "Points", 125),
     Proj("Josh Allen", "NCAAF", "Passing Yards", 2005),
     Proj("Arch Manning", "CFB", "Passing Yards", 2405),
     Proj("LeBron James", "NBA", "Points", 255),
     Proj("LeBron James", "NBA", "Points", 240),
     Proj("LeBron James", "NBA", "Rebounds", 75),
     Proj("Sam Doe", "NHL", "Shots", 30),
     Proj("Sam Doe", "MLB", "Hits", 0),
     Proj("Sam Doe", "MLB", "Total Bases", -5)}

\* one projection for every variant of the scanner's allow-list
LeagueProps == {Proj("Sam Doe", target_leagues[i], "Points", 95) : i \in 1..Len(target_leagues)}

ProjLists ==
    {WithIds(s) : s \in SeqsUpTo(ProjPool, MaxProps)}
    \cup {WithIds(SubSeq(StarProps, 1, n) \o s) :
            n \in (max_per_player - 1)..Min(Len(StarProps), max_per_player + 1 + MaxOver),
            s \in SeqsUpTo(ProjPool, 1)}

\* players of a payload that fills the caps of lines 343-356
CrowdNames ==
    <<"Ann Roe", "Bob Roe", "Cy Roe", "Dee Roe", "Ed Roe", "Flo Roe", "Gus Roe",
      "Ida Roe", "Jo Roe", "Kit Roe">>

\* n projections of one league, per of them for each player
CrowdProps(league, stat, n, per) ==
    [i \in 1..n |-> Proj(CrowdNames[((i - 1) \div per) + 1], league, stat, 95)]

\* payloads around the caps of 40 per football sport, of 5 and 15 per other
\* sport and around 50 football picks, the football projections last
CrowdLists ==
    {WithIds(CrowdProps("NBA", "Points", nba, 2) \o CrowdProps("MLB", "Hits", mlb, 2)
             \o CrowdProps("NCAAF", "Rushing Yards", cfb, max_per_player)
             \o CrowdProps("NFL", "Rushing Yards", nfl, max_per_player)) :
        nba \in {5 + MaxOver, 15 + MaxOver}, mlb \in {0, 5 + MaxOver},
        cfb \in {9, 10}, nfl \in 39..(40 + MaxOver)}

\* scored records as lines 459-470 build them
ScoredLists == {[i \in 1..Len(s) |-> scored_projection(s[i])] : s \in ProjLists}

Line(lead, body, trail) ==
    [idx |-> 0, lead |-> lead, body |-> body, trail |-> trail, ellipsis |-> FALSE]

LinePool ==
    {Line(0, 0, 0), Line(3, 0, 0), Line(0, 5, 0), Line(2, 5, 1), Line(0, 1000, 0),
     Line(0, 1990, 0), Line(0, max_message_length - 1, 0), Line(0, max_message_length, 0),
     Line(0, max_message_length + 1, 0), Line(4, max_message_length + 500, 0)}

WithIdx(s) == [i \in 1..Len(s) |-> [s[i] EXCEPT !.idx = i]]

\* message.split('\n') always has at least one element
Messages == {WithIdx(s) : s \in SeqsUpTo(LinePool, MaxLines) \ {<<>>}}

\* longest list of events in an odds payload, drawn element by element
MaxEvents == 2

Outcome(name, price, point) == [name |-> name, price |-> price, point |-> point]

Market(key, outcomes) == [key |-> key, outcomes |-> outcomes]

\* an event with the markets of one bookmaker
Event(home, away, markets) ==
    [is_dict |-> TRUE, id |-> 0, home_team |-> home, away_team |-> away,
     bookmakers |-> <<[markets |-> markets]>>]

H2h(p1, p2) == Market("h2h", <<Outcome("Jets", p1, NA), Outcome("Bills", p2, NA)>>)

Spreads(s1, p1, s2, p2) ==
    Market("spreads", <<Outcome("Jets", Num(p1), Num(s1)), Outcome("Bills", Num(p2), Num(s2))>>)

OverUnder(over, under, t) ==
    Market("totals", <<Outcome(over, Num(-110), Num(t)), Outcome(under, Num(-110), Num(t))>>)

EventPool ==
    {\* all three markets
     Event(<<"Bills">>, <<"Jets">>,
           <<H2h(Num(-150), Num(130)), Spreads(30, -110, -30, -110),
             OverUnder("Over", "Under", 445)>>),
     \* no home_team key
     Event(<<>>, <<"Jets">>, <<H2h(Num(120), Num(120))>>),
     \* neither team, no bookmaker
     [Event(<<>>, <<>>, <<>>) EXCEPT !.bookmakers = <<>>],
     \* no bookmaker
     [Event(<<"Bills">>, <<"Jets">>, <<>>) EXCEPT !.bookmakers = <<>>],
     \* a totals market whose outcomes are not named Over / Under
     Event(<<"Bills">>, <<"Jets">>, <<OverUnder("O 44.5", "U 44.5", 445)>>),
     \* a price that is null, a market with a single outcome
     Event(<<"Bills">>, <<"Jets">>,
           <<H2h(Null, Num(130)), Market("spreads", <<Outcome("Jets", Num(-110), Num(30))>>)>>),
     \* an element that is not a JSON object
     [Event(<<>>, <<>>, <<>>) EXCEPT !.is_dict = FALSE]}

EventLists == {WithIds(s) : s \in SeqsUpTo(EventPool, MaxEvents)}

sport_names == {"NFL", "CFB"}

\* longest 'data' list of a projections payload, drawn element by element
MaxRaw == 2

RawProj(stat, line, player_id, league_id) ==
    [is_dict |-> TRUE, id |-> 0, stat_type |-> stat, line_score |-> line,
     player_id |-> player_id, league_id |-> league_id, null_data |-> {}]

Included ==
    <<[type |-> "new_player", id |-> "1", name |-> <<"Josh Allen">>],
      [type |-> "new_player", id |-> "2", name |-> <<"LeBron James">>],
      [type |-> "league", id |-> "1", name |-> <<"NFL">>],
      [type |-> "league", id |-> "2", name |-> <<"NBA">>],
      [type |-> "league", id |-> "3", name |-> <<"SOCCER">>],
      [type |-> "league", id |-> "4", name |-> <<"College football">>]>>

RawPool ==
    {RawProj("Passing Yards", 2505, "1", "1"),
     RawProj("Points", 255, "2", "2"),
     \* the player is not among the included items
     RawProj("Rushing Yards", 355, "9", "1"),
     \* the league is not among the included items
     RawProj("Points", 255, "2", "9"),
     \* a league that is not tracked
     RawProj("Shots", 25, "2", "3"),
     \* a tracked league in another case than the configured variant
     RawProj("Rushing Yards", 355, "1", "4"),
     \* "new_player": {"data": null}
     [RawProj("Passing Yards", 2505, "", "1") EXCEPT !.null_data = {"new_player"}],
     \* an element that is not a JSON object
     [RawProj("", 0, "", "") EXCEPT !.is_dict = FALSE]}

RawLists == {WithIds(s) : s \in SeqsUpTo(RawPool, MaxRaw)}

Response(kind, data, included) == [kind |-> kind, data |-> data, included |-> included]

Failure(kind) == Response(kind, <<"missing">>, <<"missing">>)

Payload(data, included) == Response("dict", data, included)

\* the answers that carry no list of projections
FailurePool ==
    {Failure("raises"), Failure("status_429"), Failure("status_500"), Failure("bad_json"),
     Failure("not_dict"), Failure("no_data_key"),
     Payload(<<"null">>, <<"missing">>), Payload(<<"number">>, <<"missing">>),
     Payload(<<"string", 5>>, <<"missing">>), Payload(<<"object", 1>>, <<"missing">>),
     Payload(<<"list", <<>>>>, <<"list", Included>>)}

\* payloads with a non-empty list of projections
OnePayload == <<"list", WithIds(<<RawProj("Passing Yards", 2505, "1", "1")>>)>>

PayloadPool ==
    {Payload(OnePayload, <<"list", Included>>),
     Payload(OnePayload, <<"missing">>),
     Payload(OnePayload, <<"null">>),
     Payload(<<"list", WithIds(<<RawProj("Points", 255, "2", "2"),
                                RawProj("Shots", 25, "2", "3")>>)>>,
             <<"list", Included>>)}

ResponsePool == FailurePool \cup PayloadPool

\* the answers of the endpoints, one per element of base_urls
EndpointAnswers == [1..Len(base_urls) -> ResponsePool]

\* the payloads handed to parse_projections
ParsedPayloads == {Payload(<<"list", d>>, <<"list", Included>>) : d \in RawLists}

\* number of scans that are run, over all invocations of the program
MaxRuns == 2

OddsAnswer(kind, data) == [kind |-> kind, data |-> data]

RunEvent(id, markets) == [Event(<<"Bills">>, <<"Jets">>, markets) EXCEPT !.id = id]

NflAnswers ==
    {OddsAnswer("raises", <<>>),
     OddsAnswer("ok", <<>>),
     OddsAnswer("ok", <<RunEvent(1, <<H2h(Num(120), Num(120))>>),
                        RunEvent(2, <<H2h(Num(-150), Num(130)), Spreads(30, -110, -30, -110),
                                      OverUnder("Over", "Under", 445)>>)>>)}

CfbAnswers ==
    {OddsAnswer("status_500", <<>>),
     OddsAnswer("ok", <<RunEvent(3, <<Spreads(-35, -110, 35, -110)>>)>>)}

RunResponses ==
    {[i \in 1..Len(base_urls) |-> Failure("raises")],
     [i \in 1..Len(base_urls) |-> Payload(<<"list", <<>>>>, <<"list", Included>>)],
     <<Failure("status_429"),
       Payload(<<"list", WithIds(<<RawProj("Passing Yards", 2505, "1", "1"),
                                  RawProj("Points", 255, "2", "2"),
                                  RawProj("Shots", 25, "2", "3")>>)>>,
               <<"list", Included>>),
       Failure("raises")>>}

Envs ==
    [nfl : NflAnswers, cfb : CfbAnswers, responses : RunResponses, writable : BOOLEAN]

\* update_all.py lines 128-133
Configuration ==
    [send_discord_alerts |-> TRUE, save_data |-> TRUE, use_ai_analysis |-> TRUE,
     deploy_to_github |-> TRUE, min_games_threshold |-> 1, min_projections_threshold |-> 1,
     continuous |-> FALSE, interval_minutes |-> 15]

\* update_all.py lines 511-530: the commands that scan, and the minutes
\* given to `continuous`
Intervals == {15, -5}

Modes ==
    {Configuration,
     [Configuration EXCEPT !.send_discord_alerts = FALSE],
     [Configuration EXCEPT !.use_ai_analysis = FALSE],
     [Configuration EXCEPT !.use_ai_analysis = FALSE, !.send_discord_alerts = FALSE],
     [Configuration EXCEPT !.deploy_to_github = FALSE]}
    \cup {[Configuration EXCEPT !.continuous = TRUE, !.interval_minutes = m] : m \in Intervals}

\* what is known of the last scan before any scan has run
NoRun ==
    [env |-> [nfl |-> OddsAnswer("raises", <<>>), cfb |-> OddsAnswer("status_500", <<>>),
              responses |-> [i \in 1..Len(base_urls) |-> Failure("raises")],
              writable |-> TRUE],
     mode |-> Configuration, posts |-> <<>>, stages |-> <<>>,
     result |-> [bovada_games |-> <<>>, prizepicks_projections |-> <<>>,
                 bovada_analysis |-> <<>>, prizepicks_analysis |-> <<>>,
                 success |-> TRUE]]

---------------------------------------------------------------------------
(* State machine: one action per operation.  A caller invokes one          *)
(* operation at a time: op is the operation in progress ("idle" when none  *)
(* is), arg its argument and ret what it returns; Return hands the result  *)
(* back and leaves the instance idle again.                                *)

\* the result of evaluating self.<name>(...) for a helper
CallHelper(obj, name, value) ==
    IF HasAttr(obj, name) THEN <<"returned", value>> ELSE <<"AttributeError">>

\* no process of update_all.py is running, the working directory holds no
\* data file yet and is a git repository or not
InitRun ==
    /\ pc = "off"
    /\ ai = Configuration
    /\ \E git \in {None, Some(<<>>)} :
           disk = [p \in Paths |-> IF p = ".git" THEN git ELSE None]
    /\ last = NoRun
    /\ runs = 0

Init ==
    /\ self = ClassMethods
    /\ op = "idle"
    /\ arg = <<>>
    /\ ret = <<>>
    /\ InitRun

\* the analyzer's methods invoked on an instance on which the helper
\* definitions of lines 601-740 resolve as well
InitBound ==
    /\ self = ClassMethods \cup HelperDefs
    /\ op = "idle"
    /\ arg = <<>>
    /\ ret = <<>>
    /\ InitRun

Call(name, a, r) ==
    /\ op' = name
    /\ arg' = a
    /\ ret' = r
    /\ UNCHANGED <<self, runvars>>

AmericanToProbability ==
    /\ op = "idle"
    /\ \E odds \in OddsValues :
           Call("american_to_probability", odds,
                CallHelper(self, "american_to_probability", american_to_probability(odds)))

\* the calls of lines 131-132, for one side of a two-sided market
CalculateValue ==
    /\ op = "idle"
    /\ \E o1 \in OddsValues, o2 \in OddsValues :
           /\ american_to_probability(o1).n # 0
           /\ american_to_probability(o2).n # 0
           /\ LET implied == american_to_probability(o1)
                  fair == fair_probability(implied, american_to_probability(o2))
              IN  Call("calculate_value",
                       [odds |-> o1, other_odds |-> o2, fair_prob |-> fair, implied_prob |-> implied],
                       CallHelper(self, "calculate_value", calculate_value(fair, implied)))

CalculatePropConfidence ==
    /\ op = "idle"
    /\ \E proj \in ProjPool \cup Range(StarProps) :
           Call("calculate_prop_confidence", proj,
                CallHelper(self, "calculate_prop_confidence", calculate_prop_confidence(proj)))

AnalyzeMoneyline ==
    /\ op = "idle"
    /\ \E game \in GamePool \cup MoneylineGames : Call("analyze_moneyline", game, analyze_moneyline(self, game))

AnalyzeSpread ==
    /\ op = "idle"
    /\ \E game \in GamePool \cup SpreadGames :
           Call("analyze_spread", game, analyze_spread(self, game))

AnalyzeTotals ==
    /\ op = "idle"
    /\ \E game \in GamePool : Call("analyze_totals", game, analyze_totals(self, game))

AnalyzeSingleGame ==
    /\ op = "idle"
    /\ \E game \in GamePool : Call("analyze_single_game", game, analyze_single_game(self, game))

AnalyzeBovadaGames ==
    /\ op = "idle"
    /\ \E games \in GameLists :
           Call("analyze_bovada_games", games, analyze_bovada_games(self, games))

AnalyzeSingleProjection ==
    /\ op = "idle"
    /\ \E proj \in ProjPool \cup Range(StarProps) \cup LeagueProps :
           Call("analyze_single_projection", proj, analyze_single_projection(self, proj))

AnalyzePrizepicksProjections ==
    /\ op = "idle"
    /\ \E projections \in ProjLists \cup CrowdLists :
           Call("analyze_prizepicks_projections", projections,
                analyze_prizepicks_projections(self, projections))

\* update_all.py lines 281-303 on the list analyze_prizepicks_projections
\* returns for a payload
SendEnhancedAiAlerts ==
    /\ op = "idle"
    /\ \E projections \in ProjLists \cup CrowdLists :
       \E prizepicks_analysis \in {analyze_prizepicks_projections(self, projections)} :
           Call("send_enhanced_ai_alerts", prizepicks_analysis,
                prizepicks_summary(prizepicks_analysis))

DiversifyPlayerPicks ==
    /\ op = "idle"
    /\ \E analyzed_props \in ScoredLists :
           Call("diversify_player_picks_football_first", analyzed_props,
                diversify_player_picks_football_first(analyzed_props, max_per_player))

SplitLongMessage ==
    /\ op = "idle"
    /\ \E message \in Messages :
           Call("split_long_message", message, split_long_message(message))

ExtractOddsApiGameInfo ==
    /\ op = "idle"
    /\ \E event \in EventPool, sport_name \in sport_names :
           Call("extract_odds_api_game_info", [event |-> event, sport_name |-> sport_name],
                extract_odds_api_game_info(event, sport_name))

ParseOddsApiGames ==
    /\ op = "idle"
    /\ \E data \in EventLists, sport_name \in sport_names :
           Call("parse_odds_api_games", [data |-> data, sport_name |-> sport_name],
                parse_odds_api_games(data, sport_name))

\* ret is [requests, result]: the endpoints requested and what is returned
FetchProjections ==
    /\ op = "idle"
    /\ \E responses \in EndpointAnswers :
           Call("fetch_projections", responses, fetch_projections(responses))

\* data is a payload fetch_projections can return
ParseProjections ==
    /\ op = "idle"
    /\ \E data \in {d \in ParsedPayloads \cup ResponsePool : ReturnsData(d)} :
           Call("parse_projections", data, parse_projections(data))

Return ==
    /\ op # "idle"
    /\ op' = "idle"
    /\ arg' = <<>>
    /\ ret' = <<>>
    /\ UNCHANGED <<self, runvars>>

Next ==
    \/ Return
    \/ AmericanToProbability
    \/ CalculateValue
    \/ CalculatePropConfidence
    \/ AnalyzeMoneyline
    \/ AnalyzeSpread
    \/ AnalyzeTotals
    \/ AnalyzeSingleGame
    \/ AnalyzeBovadaGames
    \/ AnalyzeSingleProjection
    \/ AnalyzePrizepicksProjections
    \/ DiversifyPlayerPicks
    \/ SendEnhancedAiAlerts
    \/ SplitLongMessage
    \/ ExtractOddsApiGameInfo
    \/ ParseOddsApiGames
    \/ FetchProjections
    \/ ParseProjections

\* the program: the methods run on a BettingAIAnalyzer instance
Spec == Init /\ [][Next]_vars

SpecBound == InitBound /\ [][Next]_vars

\* update_all.py lines 500-530: the program is started with a command that
\* scans; pc is "off" before the first start, "scan" while run_full_scan
\* runs or is about to, "sleep" between two scans of run_continuous,
\* "exited" after a single scan, "interrupted" after KeyboardInterrupt
\* (line 468) and "error" after the except clause of line 470; last is what
\* the scan of this process returned, posted and went through
Main ==
    /\ pc \notin {"scan", "sleep"}
    /\ runs < MaxRuns
    /\ \E m \in Modes : ai' = m
    /\ pc' = "scan"
    /\ last' = NoRun
    /\ UNCHANGED <<self, op, arg, ret, disk, runs>>

\* update_all.py lines 141-213, once (main) or as line 464 of the loop
RunFullScan ==
    /\ pc = "scan"
    /\ runs < MaxRuns
    /\ \E env \in Envs :
       \E bovada \in {scan_bovada(ai, disk, env)} :
       \E prizepicks \in {scan_prizepicks(ai, bovada.files, env)} :
       \E analysis \in {analysis_of(self, ai, bovada.games, prizepicks.projections)} :
       \E run \in {run_full_scan(ai, env, bovada, prizepicks, analysis)} :
               /\ disk' = run.files
               /\ last' = [env |-> env, mode |-> ai, posts |-> run.posts,
                           stages |-> run.stages, result |-> run.result]
    /\ runs' = runs + 1
    /\ pc' = IF ai.continuous THEN "sleep" ELSE "exited"
    /\ UNCHANGED <<self, op, arg, ret, ai>>

\* update_all.py line 466: time.sleep raises ValueError for a negative
\* length, caught on line 470, which ends the loop; the value the scan
\* returned on line 464 is dropped
Sleep ==
    /\ pc = "sleep"
    /\ pc' = IF ai.interval_minutes * 60 < 0 THEN "error" ELSE "scan"
    /\ last' = NoRun
    /\ UNCHANGED <<self, op, arg, ret, ai, disk, runs>>

\* update_all.py line 468: Ctrl+C while the loop sleeps or is about to scan
KeyboardInterrupt ==
    /\ ai.continuous
    /\ pc \in {"scan", "sleep"}
    /\ pc' = "interrupted"
    /\ UNCHANGED <<self, op, arg, ret, ai, disk, last, runs>>

NextRun ==
    \/ Main
    \/ RunFullScan
    \/ Sleep
    \/ KeyboardInterrupt

\* the program as written
SpecRun == Init /\ [][NextRun]_vars

\* the program on an analyzer on which the helper definitions resolve
SpecRunBound == InitBound /\ [][NextRun]_vars

---------------------------------------------------------------------------
(* Properties                                                              *)

Count(s, Test(_)) == Cardinality({i \in 1..Len(s) : Test(s[i])})

InRange(c) == 0 <= c /\ c <= 10000

GameOps == {"analyze_single_game", "analyze_bovada_games"}

MarketOps == {"analyze_moneyline", "analyze_spread", "analyze_totals"}

PropOps == {"analyze_single_projection", "analyze_prizepicks_projections"}

RankedPropOps == {"diversify_player_picks_football_first", "analyze_prizepicks_projections"}

C4_PerPlayerName ==
    op \in RankedPropOps =>
        \A p \in Range(ret) :
            Count(ret, LAMBDA q : q.player_name = p.player_name) <= max_per_player

\* C4 as amended: the output of diversify_player_picks_football_first (and
\* of analyze_prizepicks_projections) holds at most max_per_player (6)
\* picks carrying the same player name and the same sport.
C4_PerPlayerAndSport ==
    op \in RankedPropOps =>
        \A p \in Range(ret) :
            Count(ret, LAMBDA q : q.player_name = p.player_name /\ q.sport = p.sport)
                <= max_per_player

\* a player had more than 6 picks in one sport and 6 of them were emitted
C4_Witness ==
    /\ op = "diversify_player_picks_football_first"
    /\ \E p \in Range(ret) :
          /\ Count(ret, LAMBDA q : q.player_name = p.player_name /\ q.sport = p.sport)
                = max_per_player
          /\ Count(arg, LAMBDA q : q.player_name = p.player_name /\ q.sport = p.sport)
                > max_per_player

IsSide(o, other) ==
    /\ op = "calculate_value"
    /\ ret[1] = "returned"
    /\ arg.odds = o
    /\ arg.other_odds = other

Half == [n |-> 1, d |-> 2]

ROne == [n |-> 1, d |-> 1]

IsProbabilityOf(o) ==
    /\ op = "american_to_probability"
    /\ ret[1] = "returned"
    /\ arg = o

\* the value is 100/(o+100) for positive o and |o|/(|o|+100) otherwise
MatchesFormula ==
    IF arg > 0 THEN ret[2].n * (arg + 100) = 100 * ret[2].d
    ELSE ret[2].n * (Abs(arg) + 100) = Abs(arg) * ret[2].d

SamePlayer(p, q) == p.player_name = q.player_name /\ p.sport = q.sport

SameStat(p, q) == Lower(p.stat_type) = Lower(q.stat_type)

\* a pick of the output repeats the stat type of another pick of its player
Repeats(p) == \E q \in Range(ret) : q # p /\ SamePlayer(p, q) /\ SameStat(p, q)

\* every stat type among the player's input picks is represented in the output
VarietyExhausted(p) ==
    \A q \in Range(arg) :
        SamePlayer(p, q) => \E r \in Range(ret) : SamePlayer(p, r) /\ SameStat(q, r)

C10_ChunksWithinLimit ==
    op = "split_long_message" => \A c \in Range(ret) : ChunkLen(c) <= max_message_length

\* C11: split_long_message cuts only at line boundaries: a line is truncated
\* only when it is itself longer than max_message_length; every line of at
\* most max_message_length characters appears whole in exactly one chunk,
\* and the chunks keep the line order of the input.
C11_LineBoundaries ==
    op = "split_long_message" =>
        LET out == Flatten(ret)
        IN  /\ \A l \in Range(arg) :
                  LineLen(l) <= max_message_length
                      => Cardinality({k \in 1..Len(out) : out[k] = l}) = 1
            /\ \A k \in 1..Len(out) :
                  out[k].ellipsis => LineLen(arg[out[k].idx]) > max_message_length
            /\ \A j, k \in 1..Len(out) : j < k => out[j].idx < out[k].idx


\* a scan has run to its end in this process
Completed == last.stages # <<>>

\* the odds provider gave no list of events: both requests raised or
\* answered another status than 200
BovadaFailed(env) == env.nfl.kind # "ok" /\ env.cfb.kind # "ok"

\* no projection endpoint answered with a JSON object
PrizepicksFailed(env) == \A i \in 1..Len(base_urls) : env.responses[i].kind # "dict"

\* C12: when both providers yield empty collections the run still
\* completes: run_full_scan returns success = True with empty analysis
\* lists (zero recommendations) and reaches its summary.
C12_EmptyRunSucceeds ==
    (/\ Completed
     /\ last.result.bovada_games = <<>>
     /\ last.result.prizepicks_projections = <<>>)
    => /\ last.result.success
       /\ last.result.bovada_analysis = <<>>
       /\ last.result.prizepicks_analysis = <<>>
       /\ last.stages[Len(last.stages)] = "print_summary"

\* a run in which the odds provider answers with an empty list of NFL
\* events and the projection endpoints with empty 'data' lists
C12_Witness ==
    /\ Completed
    /\ last.env.nfl = OddsAnswer("ok", <<>>)
    /\ \A i \in 1..Len(base_urls) : ReturnsData(last.env.responses[i]) = FALSE
    /\ \E i \in 1..Len(base_urls) : last.env.responses[i].kind = "dict"
    /\ last.result.bovada_games = <<>>
    /\ last.result.prizepicks_projections = <<>>
    /\ last.result.success

\* what the projection endpoints' answers normalise to
ExpectedProjections(env) ==
    LET data == fetch_projections(env.responses).result
    IN  IF data = None THEN <<>> ELSE parse_projections(data[1])

\* what the odds endpoints' answers normalise to
ExpectedGames(env) == fetch_games(env.nfl, "NFL") \o fetch_games(env.cfb, "CFB")

\* the ids a message of the run lists
PostedGames == UNION {Range(last.posts[i].games) : i \in 1..Len(last.posts)}

PostedPicks == UNION {Range(last.posts[i].picks) : i \in 1..Len(last.posts)}

\* the records of the projections provider are scanned, scored, ranked and
\* reported
ProjectionsHandled ==
    /\ \E i \in 1..Len(last.stages) : last.stages[i] = "scan_prizepicks"
    /\ last.env.writable => last.result.prizepicks_projections = ExpectedProjections(last.env)
    /\ last.mode.use_ai_analysis =>
           last.result.prizepicks_analysis =
               analyze_prizepicks_projections(self, last.result.prizepicks_projections)
    /\ last.mode.send_discord_alerts =>
           PostedPicks = Range(Ids(IF last.mode.use_ai_analysis
                                   THEN last.result.prizepicks_analysis
                                   ELSE last.result.prizepicks_projections))

\* the records of the odds provider are scanned, scored, ranked and reported
GamesHandled ==
    /\ \E i \in 1..Len(last.stages) : last.stages[i] = "scan_bovada"
    /\ last.env.writable => last.result.bovada_games = ExpectedGames(last.env)
    /\ last.mode.use_ai_analysis =>
           last.result.bovada_analysis =
               analyze_bovada_games(self, last.result.bovada_games)
    /\ last.mode.send_discord_alerts =>
           PostedGames = Range(Ids(IF last.mode.use_ai_analysis
                                   THEN last.result.bovada_analysis
                                   ELSE last.result.bovada_games))

StageRank(stage) ==
    CASE stage = "scan_bovada" -> 1
      [] stage = "scan_prizepicks" -> 2
      [] stage = "analysis" -> 3
      [] stage \in {"save_analysis_data", "deploy_to_github"} -> 4
      [] stage = "post" -> 5
      [] stage = "print_summary" -> 6
      [] OTHER -> 0

\* C14: in every successful run_full_scan the stages occur in a fixed
\* order: the odds scan finishes before the projections scan starts, both
\* before scoring, scoring and ranking before the analysis snapshot is
\* written, the snapshot write and the deployment before every webhook
\* notification, and the run summary comes last.
C14_StageOrder ==
    (Completed /\ last.result.success) =>
        LET stages == SelectSeq(last.stages, LAMBDA s : s # "sleep")
        IN  /\ \A i, j \in 1..Len(stages) :
                   i < j => /\ StageRank(stages[i]) > 0
                            /\ StageRank(stages[i]) <= StageRank(stages[j])
            /\ \A i, j \in 1..Len(stages) :
                   (i < j /\ stages[i] = stages[j]) => stages[i] = "post"
            /\ stages[1] = "scan_bovada"
            /\ stages[2] = "scan_prizepicks"
            /\ stages[Len(stages)] = "print_summary"

\* a run that goes through every stage and posts a message
C14_Witness ==
    /\ Completed
    /\ last.result.success
    /\ \A s \in {"scan_bovada", "scan_prizepicks", "analysis", "save_analysis_data",
                 "deploy_to_github", "post", "print_summary"} :
           \E i \in 1..Len(last.stages) : last.stages[i] = s

\* the collection of the last run that belongs in a data file
CollectionOf(file) ==
    CASE file = "bovada_current.json" -> last.result.bovada_games
      [] file = "prizepicks_current.json" -> last.result.prizepicks_projections
      [] file = "bovada_analysis.json" -> last.result.bovada_analysis
      [] file = "prizepicks_analysis.json" -> last.result.prizepicks_analysis

\* the file holds the collection; no file counts for an empty collection
Holds(path, collection) ==
    disk[path] = Some(collection) \/ (collection = <<>> /\ disk[path] = None)

NonEmptyList(response) ==
    /\ response.kind = "dict"
    /\ response.data[1] = "list"
    /\ Len(response.data[2]) > 0

\* C16: fetch_projections requests the endpoints in list order, each at most
\* once; it returns the payload of the first endpoint that answers 200 with
\* a non-empty 'data' list and requests no endpoint after it; an endpoint
\* that raises, answers another status or has empty or malformed data is
\* followed by the next one; None is returned exactly when no endpoint
\* yields a non-empty 'data' list.
C16_FirstNonEmptyList ==
    op = "fetch_projections" =>
        LET good == {i \in 1..Len(base_urls) : NonEmptyList(arg[i])}
            n == Len(ret.requests)
        IN  /\ n <= Len(base_urls)
            /\ ret.requests = SubSeq(base_urls, 1, n)
            /\ IF good = {}
               THEN ret.result = None /\ n = Len(base_urls)
               ELSE \E first \in good :
                       /\ \A i \in good : first <= i
                       /\ n = first
                       /\ ret.result = Some(arg[first])


\* a message that sums up the run: the dashboard message of
\* send_enhanced_ai_alerts or the embed of send_summary_alert
IsSummary(post) == post.username = "AI Betting Dashboard" \/ post.embed = "Scan Summary"

\* C17: every run that completes with notifications enabled is reported by
\* a summary message posted to the channel, with and without AI analysis,
\* also when the results are empty or partial.
C17_SummaryPosted ==
    (Completed /\ last.mode.send_discord_alerts) =>
        \E i \in 1..Len(last.posts) : IsSummary(last.posts[i])

\* C18: in continuous mode scan and sleep phases strictly alternate: a scan
\* is followed by a sleep and a sleep by the next scan, and the loop stops
\* only when the user interrupts it.
C18_AlternatesUntilInterrupted ==
    [][ai.continuous =>
          /\ (pc = "scan" /\ pc' # pc) => pc' \in {"sleep", "interrupted"}
          /\ (pc = "sleep" /\ pc' # pc) => pc' \in {"scan", "interrupted"}]_vars

\* an event without a home_team or without an away_team key
MissingTeam(event) == event.home_team = <<>> \/ event.away_team = <<>>

\* C19: an event with fewer than two competitors (home_team or away_team
\* missing) is dropped: extract_odds_api_game_info produces no record for
\* it and parse_odds_api_games omits it from its output.
C19_DropsIncompleteEvent ==
    /\ op = "extract_odds_api_game_info" =>
           (MissingTeam(arg.event) => ret = None)
    /\ op = "parse_odds_api_games" =>
           \A game \in Range(ret) : ~MissingTeam(arg.data[game.id])

\* a price or line field that holds a number of the payload or 'N/A'
NumericOrNA(x) == x = NA \/ Len(x) = 1

GameOddsFields(game) ==
    {game.moneyline.team1_odds, game.moneyline.team2_odds,
     game.spread.team1_spread, game.spread.team1_odds,
     game.spread.team2_spread, game.spread.team2_odds,
     game.totals.total_points, game.totals.over_odds, game.totals.under_odds}

\* C20: in every GameOdds record the normalizer produces, each price and
\* line field is a number taken from the payload or 'N/A', never None,
\* also when market sections are absent or outcomes carry unexpected names.
C20_NumericOrNA ==
    /\ op = "extract_odds_api_game_info" =>
           \A game \in Range(ret) : \A x \in GameOddsFields(game) : NumericOrNA(x)
    /\ op = "parse_odds_api_games" =>
           \A game \in Range(ret) : \A x \in GameOddsFields(game) : NumericOrNA(x)

\* the name an identifier resolves to among the included items of a type,
\* "Unknown" when there is none
ResolvedName(included, type, id) ==
    LET named == {i \in 1..Len(included) :
                     /\ included[i].type = type
                     /\ included[i].id = id
                     /\ included[i].name # <<>>}
    IN  IF named = {} THEN "Unknown" ELSE included[CHOOSE i \in named : TRUE].name[1]

AcceptedLeague(name) ==
    \E v \in Range(target_leagues) : Contains(Lower(v), Lower(name))

\* the projections of a payload whose resolved league is accepted, in input
\* order
AcceptedProjections(data, included) ==
    SelectSeq(data, LAMBDA p :
        p.is_dict /\ AcceptedLeague(ResolvedName(included, "league", p.league_id)))

\* C21: parse_projections returns exactly the input projections whose
\* resolved league name contains, whatever the case, one of the accepted
\* league variants, in input order; a projection whose league does not
\* resolve is filtered out as 'Unknown', one whose player does not resolve is
\* kept with player_name 'Unknown'.
C21_ExactlyAcceptedLeagues ==
    (op = "parse_projections" /\ arg.data[1] = "list") =>
        LET included == IF arg.included[1] = "list" THEN arg.included[2] ELSE <<>>
            expected == AcceptedProjections(arg.data[2], included)
        IN  /\ Ids(ret) = Ids(expected)
            /\ \A i \in 1..Len(ret) :
                   /\ ret[i].league = ResolvedName(included, "league", expected[i].league_id)
                   /\ ret[i].player_name =
                          ResolvedName(included, "new_player", expected[i].player_id)

\* a call of analyze_moneyline on a game whose two prices are numbers other
\* than zero
PricedMoneyline ==
    /\ op = "analyze_moneyline"
    /\ arg.moneyline.team1_odds \notin {NA, Null, Num(0)}
    /\ arg.moneyline.team2_odds \notin {NA, Null, Num(0)}

\* the edge of the side priced o, (fair - implied) / implied clamped at 0
EdgeOf(o, other) ==
    LET implied == american_to_probability(o)
        fair == RDiv(implied, RAdd(implied, american_to_probability(other)))
    IN  RMax(RZero, RDiv(RSub(fair, implied), implied))

ImpliedSum ==
    RAdd(american_to_probability(arg.moneyline.team1_odds[1]),
         american_to_probability(arg.moneyline.team2_odds[1]))

\* 1 / (p1 + p2) - 1, clamped at 0
CommonEdge == RMax(RZero, RSub(RDiv(ROne, ImpliedSum), ROne))

\* the two edges as analyze_moneyline computes them, as exact values
EdgesAreCommon ==
    LET team1_prob == american_to_probability(arg.moneyline.team1_odds[1])
        team2_prob == american_to_probability(arg.moneyline.team2_odds[1])
    IN  /\ calculate_value(fair_probability(team1_prob, team2_prob), team1_prob) = CommonEdge
        /\ calculate_value(fair_probability(team2_prob, team1_prob), team2_prob) = CommonEdge

\* 1 / 1.04
ThresholdSum == [n |-> 25, d |-> 26]

IsNumber(x) == Len(x) = 1

\* the four spread fields are numbers and one of the three conditions of
\* the spread rule holds
SpreadQualifies(game) ==
    /\ \A x \in {game.spread.team1_spread, game.spread.team1_odds,
                 game.spread.team2_spread, game.spread.team2_odds} : IsNumber(x)
    /\ \/ game.spread.team1_odds[1] >= -130
       \/ game.spread.team2_odds[1] >= -130
       \/ Abs(game.spread.team1_spread[1]) <= 140

\* the side and the confidence the spread rule gives a qualifying game
ExpectedSpread(game) ==
    IF game.spread.team1_odds[1] >= -130 THEN [side |-> "team1", confidence |-> 6000]
    ELSE IF game.spread.team2_odds[1] >= -130 THEN [side |-> "team2", confidence |-> 6000]
    ELSE IF game.spread.team1_odds[1] >= game.spread.team2_odds[1]
         THEN [side |-> "team1", confidence |-> 5500]
         ELSE [side |-> "team2", confidence |-> 5500]

HasSpreadPick(analysis, expected) ==
    \E r \in Range(analysis.recommendations) :
        /\ r.bet_type = "Spread"
        /\ r.side = expected.side
        /\ r.confidence = expected.confidence

\* the analyses returned for a sport fill its cap
CapFull(sport) ==
    Cardinality({k \in 1..Len(ret) : ret[k].sport = sport}) = max_picks_per_sport

InLeague(word, proj) == Contains(word, Lower(proj.league))

\* the confidence of a projection as C24 states it, in thousandths
StatedConfidence(proj) ==
    Min(10000,
        4000
        + (IF InLeague("nfl", proj) THEN 3000
           ELSE IF InLeague("ncaaf", proj) \/ InLeague("cfb", proj) THEN 2500
           ELSE IF InLeague("nba", proj) THEN 500 ELSE 0)
        + (IF (InLeague("nfl", proj) \/ InLeague("ncaaf", proj))
              /\ AnyIn(football_stat_words, Lower(proj.stat_type)) THEN 1500 ELSE 0)
        + (IF AnyIn(regular_stat_words, Lower(proj.stat_type)) THEN 1000 ELSE 0)
        + (IF proj.line_score \in clean_lines THEN 800 ELSE 0)
        + (IF AnyIn(football_stars, Lower(proj.player_name)) THEN 2000 ELSE 0)
        + (IF AnyIn(other_stars, Lower(proj.player_name)) THEN 1000 ELSE 0))

CountOfSport(props, sport) ==
    Cardinality({k \in 1..Len(props) : props[k].sport = sport})

FootballTotal(props) == CountOfSport(props, "NFL") + CountOfSport(props, "CFB")

C26_SortedWithinSport ==
    op = "analyze_bovada_games" =>
        \A i, j \in 1..Len(ret) :
            i < j /\ ret[i].sport = ret[j].sport =>
                ret[i].confidence_score >= ret[j].confidence_score

PlayersOf(picks) == {picks[k].player_name : k \in 1..Len(picks)}

C27_ShownIsHead ==
    op = "send_enhanced_ai_alerts" => ret.shown = FirstN(arg, 5)

\* the sport under which categorize_by_sport files a projection
ScannerSport(proj) ==
    CHOOSE s \in DOMAIN categorize_by_sport(<<proj>>) : categorize_by_sport(<<proj>>)[s] # <<>>

C29_AgreeButCfbCbb ==
    op = "analyze_single_projection" /\ ret # None /\ is_target_league(arg.league)
    /\ ~InLeague("cfb", arg) /\ ~InLeague("cbb", arg) =>
        /\ ret[1].sport = ScannerSport(arg)
        /\ ret[1].sport # "Other"

\* what the two providers answered in an environment, parsed
FetchedGames(env) == fetch_games(env.nfl, "NFL") \o fetch_games(env.cfb, "CFB")

FetchedProjections(env) ==
    LET data == fetch_projections(env.responses).result
    IN  IF data = None THEN <<>> ELSE parse_projections(data[1])

\* C30: when a provider fetch succeeds with a collection that is not
\* empty, scan_bovada (scan_prizepicks) hands exactly that collection to the
\* scoring stage, also when every file write of the scan fails.
C30_WriteFailureKeepsCollection ==
    /\ FetchedGames(last.env) # <<>> =>
           last.result.bovada_games = FetchedGames(last.env)
    /\ FetchedProjections(last.env) # <<>> =>
           last.result.prizepicks_projections = FetchedProjections(last.env)

\* the same for the scans whose writes succeed
C30_KeepsCollectionWhenWritable ==
    last.env.writable => C30_WriteFailureKeepsCollection

=============================================================================
